---- MODULE Spec2Model ----
(***************************************************************************)
(* Model of pypaimon/manifest/schema/data_file_meta.py: the DataFileMeta   *)
(* record, its set_file_path operation and DATA_FILE_META_SCHEMA.          *)
(*                                                                         *)
(* Python strings are sequences of one-character strings, so that the path *)
(* arithmetic of pathlib (splitting at "/", dropping empty and "."         *)
(* components, restarting at an absolute segment) is computed and not      *)
(* assumed.  Optional[T] is a sequence of length at most one: None is <<>>  *)
(* and a present value v is <<v>>.                                          *)
(***************************************************************************)
EXTENDS Integers, Sequences, FiniteSets, TLC

VARIABLES meta, wire, dec, last_call

vars == <<meta, wire, dec, last_call>>

\* ------------------------------------------------------------------ bounds

\* Longest file_name drawn for a record.
MaxLen == 2

\* ---------------------------------------------------------------- Optional

None == <<>>

Some(x) == <<x>>

\* ------------------------------------------------------- str and str(int)

Digits == <<"0", "1", "2", "3", "4", "5", "6", "7", "8", "9">>

RECURSIVE NatToStr(_)
NatToStr(n) ==
    IF n < 10 THEN <<Digits[n + 1]>>
    ELSE NatToStr(n \div 10) \o <<Digits[(n % 10) + 1]>>

\* str(i) of a Python int.
IntToStr(i) == IF i < 0 THEN <<"-">> \o NatToStr(0 - i) ELSE NatToStr(i)

\* A partition value is a Python object: here a str or an int.
StrValue(s) == [kind |-> "str", s |-> s, n |-> 0]

IntValue(n) == [kind |-> "int", s |-> <<>>, n |-> n]

\* str(field_value)
PyStr(v) == IF v.kind = "int" THEN IntToStr(v.n) ELSE v.s

\* ----------------------------------------------------------------- pathlib

Sep == "/"

HasSep(s) == \E i \in 1..Len(s) : s[i] = Sep

FirstSep(s) == CHOOSE i \in 1..Len(s) : s[i] = Sep /\ \A j \in 1..(i - 1) : s[j] # Sep

\* s.split("/")
RECURSIVE SplitSep(_)
SplitSep(s) ==
    IF ~HasSep(s) THEN <<s>>
    ELSE <<SubSeq(s, 1, FirstSep(s) - 1)>> \o SplitSep(SubSeq(s, FirstSep(s) + 1, Len(s)))

\* "/".join(parts)
RECURSIVE JoinSep(_)
JoinSep(parts) ==
    IF parts = <<>> THEN <<>>
    ELSE IF Len(parts) = 1 THEN parts[1]
    ELSE parts[1] \o <<Sep>> \o JoinSep(Tail(parts))

\* posixpath.splitroot: no leading "/" is relative, exactly two are the root
\* "//", any other number is the root "/".
SplitRoot(s) ==
    IF Len(s) = 0 \/ s[1] # Sep THEN [anchor |-> <<>>, rel |-> s]
    ELSE IF Len(s) < 2 \/ s[2] # Sep \/ (Len(s) >= 3 /\ s[3] = Sep)
         THEN [anchor |-> <<Sep>>, rel |-> SubSeq(s, 2, Len(s))]
         ELSE [anchor |-> <<Sep, Sep>>, rel |-> SubSeq(s, 3, Len(s))]

KeptPart(x) == x # <<>> /\ x # <<".">>

ParseSplit(split) ==
    [anchor |-> split.anchor, parts |-> SelectSeq(SplitSep(split.rel), KeptPart)]

\* PurePath's parsing of one string: the empty and the "." components go.
ParsePath(s) == ParseSplit(SplitRoot(s))

JoinParsed(p, q) ==
    IF q.anchor # <<>> THEN q
    ELSE [anchor |-> p.anchor, parts |-> p.parts \o q.parts]

\* path / segment: an absolute segment replaces the path built so far.
truediv(p, s) == JoinParsed(p, ParsePath(s))

\* str(path)
PathToStr(p) ==
    IF p.anchor = <<>> /\ p.parts = <<>> THEN <<".">>
    ELSE p.anchor \o JoinSep(p.parts)

\* --------------------------------------------------------------- BinaryRow

\* partition.to_dict(): the partition row's fields, name to value, in field
\* order.  A partition is kept as that ordered sequence of <<name, value>>.
to_dict(partition) == partition

\* ------------------------------------------------------------ DataFileMeta

BucketPrefix == <<"b", "u", "c", "k", "e", "t", "-">>

RECURSIVE AppendPartition(_, _)
AppendPartition(path_builder, items) ==
    IF items = <<>> THEN path_builder
    ELSE AppendPartition(
             truediv(path_builder, items[1][1] \o <<"=">> \o PyStr(items[1][2])),
             Tail(items))

\* The path_builder of set_file_path just before it is rendered.
BuildPath(self, table_path, partition, bucket) ==
    truediv(
        truediv(AppendPartition(table_path, to_dict(partition)),
                BucketPrefix \o IntToStr(bucket)),
        self.file_name)

RECURSIVE ReverseSeq(_)
ReverseSeq(s) == IF s = <<>> THEN <<>> ELSE ReverseSeq(Tail(s)) \o <<s[1]>>

\* A set_file_path that lists the partition columns last to first.
set_file_path_reversed(self, table_path, partition, bucket) ==
    [self EXCEPT !.file_path =
        Some(PathToStr(BuildPath(self, table_path, ReverseSeq(partition), bucket)))]

\* A set_file_path that leaves the file name out of the path.
set_file_path_no_name(self, table_path, partition, bucket) ==
    [self EXCEPT !.file_path =
        Some(PathToStr(truediv(AppendPartition(table_path, to_dict(partition)),
                               BucketPrefix \o IntToStr(bucket))))]

\* A set_file_path that also moves the lower end of the sequence range.
set_file_path_clobber(self, table_path, partition, bucket) ==
    [self EXCEPT !.file_path =
                     Some(PathToStr(BuildPath(self, table_path, partition, bucket))),
                 !.min_sequence_number = self.max_sequence_number + 1]

\* A set_file_path that renames the record to the resolved path.
set_file_path_rename(self, table_path, partition, bucket) ==
    [self EXCEPT !.file_path =
                     Some(PathToStr(BuildPath(self, table_path, partition, bucket))),
                 !.file_name = PathToStr(BuildPath(self, table_path, partition, bucket))]

\* A set_file_path that prefers external_path when the record has one.
set_file_path_external(self, table_path, partition, bucket) ==
    [self EXCEPT !.file_path =
        IF self.external_path # None THEN self.external_path
        ELSE Some(PathToStr(BuildPath(self, table_path, partition, bucket)))]

\* DataFileMeta.set_file_path: the record after the call.
set_file_path(self, table_path, partition, bucket) ==
    [self EXCEPT !.file_path =
        Some(PathToStr(BuildPath(self, table_path, partition, bucket)))]

\* The attributes of the dataclass, in declaration order.
DataclassFields ==
    <<"file_name", "file_size", "row_count", "min_key", "max_key", "key_stats",
      "value_stats", "min_sequence_number", "max_sequence_number", "schema_id",
      "level", "extra_files", "creation_time", "delete_row_count",
      "embedded_index", "file_source", "value_stats_cols", "external_path",
      "file_path">>

\* The attributes annotated Optional[...], and file_path (str = None): the
\* ones that may hold None.  The others are kept unwrapped.
NullableAttrs ==
    {"min_key", "max_key", "key_stats", "value_stats", "extra_files",
     "creation_time", "delete_row_count", "embedded_index", "file_source",
     "value_stats_cols", "external_path", "file_path"}

\* The attributes the dataclass gives the default None.
DefaultedAttrs ==
    {"creation_time", "delete_row_count", "embedded_index", "file_source",
     "value_stats_cols", "external_path", "file_path"}

\* ---------------------------------------------------- DATA_FILE_META_SCHEMA

\* {"name": n, "type": t}: a field that is neither nullable nor defaulted.
Required(n, t) ==
    [name |-> n, type |-> t, nullable |-> FALSE, has_default |-> FALSE,
     default |-> None]

\* {"name": n, "type": ["null", t], "default": None}
Nullable(n, t) ==
    [name |-> n, type |-> t, nullable |-> TRUE, has_default |-> TRUE,
     default |-> None]

OriginalFields ==
    <<Required("_FILE_NAME", "string"),
      Required("_FILE_SIZE", "long"),
      Required("_ROW_COUNT", "long"),
      Required("_MIN_KEY", "bytes"),
      Required("_MAX_KEY", "bytes"),
      Required("_KEY_STATS", "long"),
      Required("_VALUE_STATS", "long"),
      Required("_MIN_SEQUENCE_NUMBER", "long"),
      Required("_MAX_SEQUENCE_NUMBER", "long"),
      Required("_SCHEMA_ID", "long"),
      Required("_LEVEL", "int"),
      Required("_EXTRA_FILES", "array<string>")>>

AddedFields ==
    <<Nullable("_CREATION_TIME", "long"),
      Nullable("_DELETE_ROW_COUNT", "long"),
      Nullable("_EMBEDDED_FILE_INDEX", "bytes"),
      Nullable("_FILE_SOURCE", "int"),
      Nullable("_VALUE_STATS_COLS", "array<string>"),
      Nullable("_EXTERNAL_PATH", "string")>>

\* The schema with _DELETE_ROW_COUNT defaulting to 0 instead of None.
SCHEMA_zero_default ==
    OriginalFields \o
    [i \in 1..Len(AddedFields) |->
        IF AddedFields[i].name = "_DELETE_ROW_COUNT"
        THEN [AddedFields[i] EXCEPT !.default = Some(0)]
        ELSE AddedFields[i]]

\* The schema with the derived path added as a nineteenth field.
SCHEMA_with_file_path ==
    OriginalFields \o AddedFields \o <<Nullable("_FILE_PATH", "string")>>

\* The schema with _CREATION_TIME added as a plain required long.
SCHEMA_required_added ==
    OriginalFields \o
    [i \in 1..Len(AddedFields) |->
        IF AddedFields[i].name = "_CREATION_TIME"
        THEN Required("_CREATION_TIME", "long")
        ELSE AddedFields[i]]

\* The schema with _MAX_KEY declared ["null", "bytes"] with default None.
SCHEMA_nullable_max_key ==
    [i \in 1..Len(OriginalFields) |->
        IF OriginalFields[i].name = "_MAX_KEY"
        THEN Nullable("_MAX_KEY", "bytes")
        ELSE OriginalFields[i]] \o AddedFields

\* DATA_FILE_META_SCHEMA["fields"]
DATA_FILE_META_SCHEMA == OriginalFields \o AddedFields

\* ------------------------------------------- the record codec of a manifest

\* Position of the field called n in the current schema.
FieldIndex(n) ==
    CHOOSE i \in 1..Len(DATA_FILE_META_SCHEMA) : DATA_FILE_META_SCHEMA[i].name = n

\* The attribute a durable field carries: the schema lists its fields in the
\* order in which the dataclass declares its attributes.
AttrOf(n) == DataclassFields[FieldIndex(n)]

\* The fields a reader can do without: the ones that have a default.
AddedNames ==
    {DATA_FILE_META_SCHEMA[i].name :
        i \in {j \in 1..Len(DATA_FILE_META_SCHEMA) : DATA_FILE_META_SCHEMA[j].has_default}}

\* The schema of a writer that knows the fields without a default and, of
\* the others, those named in known; every name known is the current schema.
WriterSchema(known) ==
    LET Kept(f) == ~f.has_default \/ f.name \in known
    IN  SelectSeq(DATA_FILE_META_SCHEMA, Kept)

\* The value of one attribute as a union value: None or a present value.
Boxed(rec, attr) == IF attr \in NullableAttrs THEN rec[attr] ELSE Some(rec[attr])

\* Writing rec under schema: one <<name, value>> per field, in schema order.
\* A field that is not a union with "null" cannot carry None.
Encode(rec, schema) ==
    IF \E i \in 1..Len(schema) :
           ~schema[i].nullable /\ Boxed(rec, AttrOf(schema[i].name)) = None
    THEN [status |-> "error", fields |-> <<>>]
    ELSE [status |-> "ok",
          fields |-> [i \in 1..Len(schema) |->
                         <<schema[i].name, Boxed(rec, AttrOf(schema[i].name))>>]]

WireNames(fields) == {fields[i][1] : i \in 1..Len(fields)}

WireValue(fields, n) == fields[CHOOSE i \in 1..Len(fields) : fields[i][1] = n][2]

\* What the reader's field f resolves to: the written value, else the
\* field's default.
Resolved(fields, f) ==
    IF f.name \in WireNames(fields) THEN WireValue(fields, f.name) ELSE f.default

SchemaAttrs(schema) == {AttrOf(schema[i].name) : i \in 1..Len(schema)}

FieldFor(schema, attr) ==
    schema[CHOOSE i \in 1..Len(schema) : AttrOf(schema[i].name) = attr]

\* Reading the written fields under the reader's schema and constructing the
\* DataFileMeta from them.  A reader field that was not written and has no
\* default is a decode error, and so is an attribute with neither a field nor
\* a dataclass default.
Decode(fields, schema) ==
    IF \/ \E i \in 1..Len(schema) :
              schema[i].name \notin WireNames(fields) /\ ~schema[i].has_default
       \/ \E j \in 1..Len(DataclassFields) :
              /\ DataclassFields[j] \notin SchemaAttrs(schema)
              /\ DataclassFields[j] \notin DefaultedAttrs
    THEN [status |-> "error", rec |-> None]
    ELSE [status |-> "ok",
          rec |-> Some([a \in {DataclassFields[j] : j \in 1..Len(DataclassFields)} |->
                     IF a \notin SchemaAttrs(schema) THEN None
                     ELSE IF a \in NullableAttrs
                          THEN Resolved(fields, FieldFor(schema, a))
                          ELSE Resolved(fields, FieldFor(schema, a))[1]])]

\* ------------------------------------------------------------------ inputs

Alphabet == {"a", "/", "."}

RECURSIVE StringsUpTo(_)
StringsUpTo(n) ==
    IF n = 0 THEN {<<>>}
    ELSE StringsUpTo(n - 1) \cup
         {Append(s, c) : s \in {t \in StringsUpTo(n - 1) : Len(t) = n - 1}, c \in Alphabet}

FileNames == StringsUpTo(MaxLen)

\* table_path: "/w" and the relative "w".
Roots ==
    {[anchor |-> <<Sep>>, parts |-> << <<"w">> >>],
     [anchor |-> <<>>, parts |-> << <<"w">> >>]}

ColumnNames == {<<"d", "t">>, <<"h">>}

\* Partition values: a str that holds the separator, and an int.
PartitionValues == {StrValue(<<"/">>), IntValue(7)}

\* partition: every ordered mapping over the column names, the empty one
\* included.
Partitions ==
    {<<>>}
    \cup {<< <<c, v>> >> : c \in ColumnNames, v \in PartitionValues}
    \cup {<< <<c[1], v[1]>>, <<c[2], v[2]>> >> :
              c \in {x \in ColumnNames \X ColumnNames : x[1] # x[2]},
              v \in PartitionValues \X PartitionValues}

Buckets == {0, 12}

CallArgs == Roots \X Partitions \X Buckets

\* The calls made on the records of a manifest that is written and read back.
ManifestCallArgs ==
    {<<[anchor |-> <<Sep>>, parts |-> << <<"w">> >>], <<>>, 0>>,
     <<[anchor |-> <<Sep>>, parts |-> << <<"w">> >>],
       << <<<<"d", "t">>, IntValue(7)>> >>, 12>>}

SequenceNumbers == {0, 1}

\* Records built by a writer of a table with primary keys: every attribute
\* present but the ones that vary.
WrittenRecords ==
    [file_name : FileNames, file_size : {1024}, row_count : {10},
     min_key : {Some("k0")}, max_key : {Some("k9")},
     key_stats : {Some("ks")}, value_stats : {Some("vs")},
     min_sequence_number : SequenceNumbers, max_sequence_number : SequenceNumbers,
     schema_id : {0}, level : {0}, extra_files : {Some(<<>>)},
     creation_time : {None}, delete_row_count : {None}, embedded_index : {None},
     file_source : {None}, value_stats_cols : {None},
     external_path : {None, Some(<<"x">>)}, file_path : {None}]

LaterAttrs ==
    {"creation_time", "delete_row_count", "embedded_index", "file_source",
     "value_stats_cols", "external_path"}

\* Records as the dataclass admits them: each Optional attribute None or
\* present.  Of the six later attributes a record has none, one or all.
AdmittedRecords ==
    {r \in
        [file_name : {<<"a">>}, file_size : {1024}, row_count : {10},
         min_key : {None, Some("k0")}, max_key : {None, Some("k9")},
         key_stats : {None, Some("ks")}, value_stats : {None, Some("vs")},
         min_sequence_number : {0}, max_sequence_number : {1},
         schema_id : {0}, level : {0}, extra_files : {None, Some(<<"i">>)},
         creation_time : {None, Some(1700)}, delete_row_count : {None, Some(0)},
         embedded_index : {None, Some("idx")}, file_source : {None, Some("append")},
         value_stats_cols : {None, Some(<<"c">>)},
         external_path : {None, Some(<<"x">>)}, file_path : {None}] :
        Cardinality({a \in LaterAttrs : r[a] # None}) \in {0, 1, 6}}

\* ----------------------------------------------------------- state machine

NoWire == [status |-> "none", fields |-> <<>>]

NoRecord == [status |-> "none", rec |-> None]

\* The arguments of the latest set_file_path call on each record, and whether
\* the latest call on meta replaced a path that an earlier call had stored.
NoCalls == [meta |-> None, dec |-> None, again |-> FALSE]

\* A record as constructed: file_path holds its default, nothing is written.
Init ==
    /\ meta \in WrittenRecords
    /\ wire = NoWire
    /\ dec = NoRecord
    /\ last_call = NoCalls

InitManifest ==
    /\ meta \in AdmittedRecords
    /\ wire = NoWire
    /\ dec = NoRecord
    /\ last_call = NoCalls

\* meta.set_file_path(table_path, partition, bucket)
SetFilePath(table_path, partition, bucket) ==
    /\ meta' = set_file_path(meta, table_path, partition, bucket)
    /\ last_call' = [last_call EXCEPT !.meta = Some(<<table_path, partition, bucket>>),
                                      !.again = (last_call.meta # None)]
    /\ UNCHANGED <<wire, dec>>

\* The record is written to a manifest by a writer whose schema has the
\* original fields and the later ones in known.
WriteEntry(known) ==
    /\ wire.status = "none"
    /\ wire' = Encode(meta, WriterSchema(known))
    /\ UNCHANGED <<meta, dec, last_call>>

\* The manifest entry is read back under the current schema.
ReadEntry ==
    /\ wire.status = "ok"
    /\ dec.status = "none"
    /\ dec' = Decode(wire.fields, DATA_FILE_META_SCHEMA)
    /\ UNCHANGED <<meta, wire, last_call>>

\* set_file_path on the record that was read back.
SetFilePathDecoded(table_path, partition, bucket) ==
    /\ dec.status = "ok"
    /\ dec' = [dec EXCEPT !.rec =
                  Some(set_file_path(dec.rec[1], table_path, partition, bucket))]
    /\ last_call' = [last_call EXCEPT !.dec = Some(<<table_path, partition, bucket>>)]
    /\ UNCHANGED <<meta, wire>>

Next == \E a \in CallArgs : SetFilePath(a[1], a[2], a[3])

NextManifest ==
    \/ \E a \in ManifestCallArgs : SetFilePath(a[1], a[2], a[3])
    \/ \E known \in SUBSET AddedNames : WriteEntry(known)
    \/ ReadEntry
    \/ \E a \in ManifestCallArgs : SetFilePathDecoded(a[1], a[2], a[3])

Spec == Init /\ [][Next]_vars

SpecManifest == InitManifest /\ [][NextManifest]_vars

\* ------------------------------------------------------------------ claims

\* The arguments of the latest call on meta.
Args == last_call.meta[1]

\* "<column>=<value>"
Segment(item) == item[1] \o <<"=">> \o PyStr(item[2])

\* The path the specification describes: the root, one segment per partition
\* column in iteration order, "bucket-<bucket>", then the file name, each
\* taken as it is and joined by "/".
ClaimedPath(file_name, a) ==
    a[1].anchor \o
    JoinSep(a[1].parts
            \o [i \in 1..Len(a[2]) |-> Segment(a[2][i])]
            \o <<BucketPrefix \o IntToStr(a[3])>>
            \o <<file_name>>)

\* A string that is one path component: not empty, not ".", no "/".
Plain(s) == s # <<>> /\ s # <<".">> /\ ~HasSep(s)

PlainPartition(partition) ==
    \A i \in 1..Len(partition) : ~HasSep(Segment(partition[i]))

\* C1 as stated: after a call, file_path is the root, the partition segments,
\* the bucket segment and file_name, for every root, partition, bucket and
\* record.
C1_PathAsSpecified ==
    last_call.meta # None => meta.file_path = Some(ClaimedPath(meta.file_name, Args))

\* C1 amended: the same, for a file_name that is one plain path component and
\* partition segments that hold no "/".
C1_PathOfPlainSegments ==
    (last_call.meta # None /\ Plain(meta.file_name) /\ PlainPartition(Args[2]))
        => meta.file_path = Some(ClaimedPath(meta.file_name, Args))

\* C1 witness: a call with a two-column partition of plain segments and bucket 12 on a record with a plain file name stored the described path.
C1_Witness ==
    /\ last_call.meta # None
    /\ Plain(meta.file_name)
    /\ Len(Args[2]) = 2
    /\ PlainPartition(Args[2])
    /\ Args[3] = 12
    /\ meta.file_path = Some(ClaimedPath(meta.file_name, Args))

\* The path a record r would get from the arguments of the latest call.
Resolve(r) == set_file_path(r, Args[1], Args[2], Args[3]).file_path

\* Records that differ from meta in what is not (partition, bucket, file_name).
SameIdentity ==
    {[meta EXCEPT !.external_path = e, !.file_path = f, !.level = l] :
         e \in {None, Some(<<"x">>)}, f \in {None, Some(<<"o">>)}, l \in {0, 1}}

\* C2 as stated: under the same root, partition and bucket, records with
\* distinct file names get distinct paths, and records with the same file
\* name get equal paths.
C2_InjectiveAllNames ==
    last_call.meta # None =>
        /\ \A fn \in FileNames \ {meta.file_name} :
               Resolve([meta EXCEPT !.file_name = fn]) # meta.file_path
        /\ \A r \in SameIdentity : Resolve(r) = meta.file_path

\* C2 amended: distinct file names that are plain path components get
\* distinct paths; equal file names get equal paths.
C2_InjectivePlainNames ==
    last_call.meta # None =>
        /\ Plain(meta.file_name) =>
               \A fn \in {x \in FileNames : Plain(x)} \ {meta.file_name} :
                   Resolve([meta EXCEPT !.file_name = fn]) # meta.file_path
        /\ \A r \in SameIdentity : Resolve(r) = meta.file_path

\* C2 witness: a call was made on a record with a plain file name, and another plain file name resolves to a different path.
C2_Witness ==
    /\ last_call.meta # None
    /\ Plain(meta.file_name)
    /\ \E fn \in {x \in FileNames : Plain(x)} \ {meta.file_name} :
           /\ Resolve([meta EXCEPT !.file_name = fn]) # meta.file_path
           /\ Resolve([meta EXCEPT !.file_name = fn]) # None
    /\ meta.file_path # None

\* The attributes the schema carries: all but file_path.
DurableAttrs ==
    {DataclassFields[j] : j \in 1..Len(DataclassFields)} \ {"file_path"}

\* C3: writing a record the dataclass admits under DATA_FILE_META_SCHEMA and
\* reading it back succeeds and reproduces every durable attribute.
C3_RoundTrip ==
    /\ Encode(meta, DATA_FILE_META_SCHEMA).status = "ok"
    /\ Decode(Encode(meta, DATA_FILE_META_SCHEMA).fields,
              DATA_FILE_META_SCHEMA).status = "ok"
    /\ \A a \in DurableAttrs :
           Decode(Encode(meta, DATA_FILE_META_SCHEMA).fields,
                  DATA_FILE_META_SCHEMA).rec[1][a] = meta[a]

\* C4: reading an entry written without some of the six later fields does not
\* fail, and each attribute whose field was not written is None.
C4_BackwardCompatible ==
    dec.status # "none" =>
        /\ dec.status = "ok"
        /\ \A i \in 1..Len(AddedFields) :
               AddedFields[i].name \notin WireNames(wire.fields)
                   => dec.rec[1][AttrOf(AddedFields[i].name)] = None

\* C4 witness: an entry written with the twelve original fields only, from a record that held
\* delete_row_count 0 and an external_path, was read back with both None.
C4_Witness ==
    /\ dec.status = "ok"
    /\ \A i \in 1..Len(AddedFields) : AddedFields[i].name \notin WireNames(wire.fields)
    /\ Len(wire.fields) = 12
    /\ meta.delete_row_count = Some(0)
    /\ meta.external_path # None
    /\ dec.rec[1].delete_row_count = None
    /\ dec.rec[1].external_path = None

\* The values file_path takes in the calls of this specification.
PathValues ==
    {None} \cup {set_file_path(meta, a[1], a[2], a[3]).file_path : a \in ManifestCallArgs}

\* C5: no field of the schema carries file_path; the written entry is the
\* same whatever file_path holds; a record read back has file_path unset
\* until set_file_path is called on it.
C5_FilePathNotDurable ==
    /\ \A i \in 1..Len(DATA_FILE_META_SCHEMA) :
           AttrOf(DATA_FILE_META_SCHEMA[i].name) # "file_path"
    /\ wire.status # "none" =>
           \A fp \in PathValues :
               Encode([meta EXCEPT !.file_path = fp],
                      WriterSchema(WireNames(wire.fields) \cap AddedNames)) = wire
    /\ (dec.status = "ok" /\ last_call.dec = None) => dec.rec[1].file_path = None

\* C5 witness: a record whose file_path was set was written under the full schema and read
\* back, and the record read back has no file_path yet.
C5_Witness ==
    /\ wire.status = "ok"
    /\ Len(wire.fields) = Len(DATA_FILE_META_SCHEMA)
    /\ meta.file_path # None
    /\ dec.status = "ok"
    /\ last_call.dec = None
    /\ dec.rec[1].file_path = None

\* The durable record layout of the specification, first row first, with the
\* names the schema gives the rows.
DurableLayout ==
    <<"_FILE_NAME", "_FILE_SIZE", "_ROW_COUNT", "_MIN_KEY", "_MAX_KEY",
      "_KEY_STATS", "_VALUE_STATS", "_MIN_SEQUENCE_NUMBER",
      "_MAX_SEQUENCE_NUMBER", "_SCHEMA_ID", "_LEVEL", "_EXTRA_FILES",
      "_CREATION_TIME", "_DELETE_ROW_COUNT", "_EMBEDDED_FILE_INDEX",
      "_FILE_SOURCE", "_VALUE_STATS_COLS", "_EXTERNAL_PATH">>

\* C6: the schema lists the twelve original fields first, in layout order,
\* none nullable or defaulted; every later field is nullable with default
\* None; no required field follows an optional one, in the schema or in an
\* entry written under it.
C6_EvolutionRule ==
    /\ Len(DATA_FILE_META_SCHEMA) = Len(DurableLayout)
    /\ \A i \in 1..Len(DATA_FILE_META_SCHEMA) :
           /\ DATA_FILE_META_SCHEMA[i].name = DurableLayout[i]
           /\ i <= 12 => /\ ~DATA_FILE_META_SCHEMA[i].nullable
                         /\ ~DATA_FILE_META_SCHEMA[i].has_default
           /\ i > 12 => /\ DATA_FILE_META_SCHEMA[i].nullable
                        /\ DATA_FILE_META_SCHEMA[i].has_default
                        /\ DATA_FILE_META_SCHEMA[i].default = None
    /\ \A i, j \in 1..Len(DATA_FILE_META_SCHEMA) :
           (i < j /\ DATA_FILE_META_SCHEMA[i].nullable) => DATA_FILE_META_SCHEMA[j].nullable
    /\ wire.status = "ok" =>
           /\ Len(wire.fields) >= 12
           /\ \A i \in 1..Len(wire.fields) :
                  /\ i <= 12 => wire.fields[i][1] = DurableLayout[i]
                  /\ i > 12 => wire.fields[i][1] \in AddedNames
           /\ \A i, j \in 1..Len(wire.fields) :
                  i < j => FieldIndex(wire.fields[i][1]) < FieldIndex(wire.fields[j][1])

\* C6 witness: an entry written under the full schema: eighteen fields, the first later
\* field right after _EXTRA_FILES and holding None.
C6_Witness ==
    /\ wire.status = "ok"
    /\ Len(wire.fields) = 18
    /\ wire.fields[12][1] = "_EXTRA_FILES"
    /\ wire.fields[13][1] = "_CREATION_TIME"
    /\ wire.fields[13][2] = None

\* C7: a call changes no attribute of the record but file_path.
C7_OnlyFilePathChanges ==
    [][\A a \in DurableAttrs : meta'[a] = meta[a]]_vars

\* C7 witness: a second call replaced the path of a record that has an external_path.
C7_Witness ==
    /\ last_call.meta # None
    /\ last_call.again
    /\ meta.file_path # None
    /\ meta.external_path # None
    /\ meta.file_name # <<>>

PairedKeys(r) == (r.min_key = None) <=> (r.max_key = None)

\* C8 as stated: every record, constructed or read back, has min_key and
\* max_key both present or both absent.
C8_KeysPairedEverywhere ==
    /\ PairedKeys(meta)
    /\ dec.status = "ok" => PairedKeys(dec.rec[1])

\* C8 amended: a record that was written, and a record that was read back,
\* has both min_key and max_key present.
C8_KeysPairedWhenDurable ==
    /\ wire.status = "ok" => (meta.min_key # None /\ meta.max_key # None)
    /\ dec.status = "ok" => (dec.rec[1].min_key # None /\ dec.rec[1].max_key # None)

\* C8 witness: a record was read back with both keys and then had its path resolved.
C8_Witness ==
    /\ dec.status = "ok"
    /\ last_call.dec # None
    /\ dec.rec[1].min_key = Some("k0")
    /\ dec.rec[1].max_key = Some("k9")

\* C9 as stated: every record that can be constructed has
\* min_sequence_number <= max_sequence_number.
C9_OrderedEverywhere == meta.min_sequence_number <= meta.max_sequence_number

\* C9 amended: a record whose sequence numbers are in order keeps them in
\* order through every set_file_path call.
C9_OrderPreserved ==
    [][meta.min_sequence_number <= meta.max_sequence_number
           => meta'.min_sequence_number <= meta'.max_sequence_number]_vars

\* C9 witness: a record with sequence numbers 0 and 1 after a second call.
C9_Witness ==
    /\ last_call.again
    /\ meta.file_path # None
    /\ meta.min_sequence_number = 0
    /\ meta.max_sequence_number = 1

====
